---- MODULE Spec2Model ----
(***************************************************************************)
(* KPI Data Processor (src/app.py): the scoring and aggregation pipeline   *)
(* that turns the uploaded ticket table into the Processed table (df) and  *)
(* the Summary table (summary), followed by the cascading filter widgets.  *)
(*                                                                         *)
(* A cell of a table is a record: NaN (missing), S(text), N(number) or     *)
(* T(tick), a timestamp.  Timestamps are counted in ticks, TicksPerHour    *)
(* ticks to the hour, inside a window that starts on 31 December 2023 and  *)
(* crosses midnight of the new year at tick NewYearTick.  Floats are exact *)
(* rationals F(n, d) in lowest terms, or one of PosInf, NegInf, NaNF.      *)
(* Only the columns the code reads are carried in a row; the other         *)
(* projected columns are copied through unread.  A row keeps its pandas    *)
(* index label in the field idx.  Sorted option lists and the sorted rows  *)
(* of the Summary table are modelled as sets (their order is not).         *)
(***************************************************************************)
EXTENDS Integers, Sequences, FiniteSets, TLC

VARIABLES df_raw, df, year_dtype, summary, pc, err,
          month_options, year_options, area_options, regional_options, nop_options,
          selected_month, selected_year, selected_area, selected_regional, selected_nop,
          filtered_summary

vars == <<df_raw, df, year_dtype, summary, pc, err,
          month_options, year_options, area_options, regional_options, nop_options,
          selected_month, selected_year, selected_area, selected_regional, selected_nop,
          filtered_summary>>

uivars == <<month_options, year_options, area_options, regional_options, nop_options,
            selected_month, selected_year, selected_area, selected_regional, selected_nop,
            filtered_summary>>

-----------------------------------------------------------------------------
(* Bounds of the model *)

MaxRows == 2

MaxTick == 8

TicksPerHour == 2

NewYearTick == MaxTick \div 2

-----------------------------------------------------------------------------
(* Cells and floats *)

NaN == [k |-> "nan"]

S(s) == [k |-> "str", v |-> s]

N(n) == [k |-> "num", v |-> n]

T(t) == [k |-> "ts", v |-> t]

isna(c) == c.k = "nan"

IsText(c, s) == c.k = "str" /\ c.v = s

Abs(i) == IF i < 0 THEN -i ELSE i

RECURSIVE Gcd(_, _)
Gcd(a, b) == IF b = 0 THEN a ELSE Gcd(b, a % b)

F(n, d) ==
  LET g == Gcd(Abs(n), d) IN [f |-> "num", n |-> n \div g, d |-> d \div g]

PosInf == [f |-> "inf"]

NegInf == [f |-> "-inf"]

NaNF == [f |-> "nan"]

Zero == F(0, 1)

FAdd(a, b) == F(a.n * b.d + b.n * a.d, a.d * b.d)

FMul(a, b) == F(a.n * b.n, a.d * b.d)

FLess(a, b) == a.n * b.d < b.n * a.d

FMin(a, b) == IF FLess(b, a) THEN b ELSE a

\* float64 / int64 as numpy divides: a zero divisor gives inf, -inf or nan
FDivInt(a, i) ==
  IF i # 0 THEN F(a.n, a.d * i)
  ELSE IF a.n > 0 THEN PosInf
  ELSE IF a.n < 0 THEN NegInf
  ELSE NaNF

\* x > 0 as Python compares a float with 0 (False for nan)
GtZero(x) ==
  CASE x.f = "num" -> x.n > 0
    [] x.f = "inf" -> TRUE
    [] OTHER -> FALSE

\* a ceiling of 2 instead of 1.5
MinCapLooseCeiling(x) == IF x.f = "inf" THEN F(2, 1) ELSE FMin(x, F(2, 1))

\* min(x, 1.5) for an x that is > 0
MinCap(x) == IF x.f = "inf" THEN F(3, 2) ELSE FMin(x, F(3, 2))

-----------------------------------------------------------------------------
(* The constants of the program *)

needed_columns ==
  {"Ticket Number Inap", "Ticket Number SWFM", "Severity", "Type Ticket", "Site Id",
   "Site Name", "Site Class", "Cluster TO", "Occured Time", "Created At",
   "Ticket Inap Status", "Ticket SWFM Status", "PIC Take Over Ticket", "NOP",
   "Regional", "Area", "Cleared Time", "Take Over Date", "Check In At",
   "SLA Status", "Fault Level", "Incident Priority", "Hub", "Is Excluded In KPI",
   "Site Cleared On", "Rank", "RCA Validated"}

\* P1 filed under B3
fault_mappingP1AsB3 ==
  [fl \in {"Controller P2", "Controller P1", "Enva Controller", "Enva Site",
           "Enva Site GSB", "Enva Site Simpul", "Enva Site VIP", "L2 Configuration",
           "P1", "P1 VIP", "P2", "P2 VIP", "Vandalism", "L2 License", "P3"} |->
     CASE fl \in {"Controller P2", "Controller P1"} -> "B22"
       [] fl \in {"Enva Controller", "Enva Site", "Enva Site GSB",
                  "Enva Site Simpul", "Enva Site VIP"} -> "B21"
       [] fl \in {"P1 VIP"} -> "B23"
       [] OTHER -> "B3"]

fault_mapping ==
  [fl \in {"Controller P2", "Controller P1", "Enva Controller", "Enva Site",
           "Enva Site GSB", "Enva Site Simpul", "Enva Site VIP", "L2 Configuration",
           "P1", "P1 VIP", "P2", "P2 VIP", "Vandalism", "L2 License", "P3"} |->
     CASE fl \in {"Controller P2", "Controller P1"} -> "B22"
       [] fl \in {"Enva Controller", "Enva Site", "Enva Site GSB",
                  "Enva Site Simpul", "Enva Site VIP"} -> "B21"
       [] fl \in {"P1", "P1 VIP"} -> "B23"
       [] OTHER -> "B3"]

slamap ==
  [p \in {"Incident", "Event"} \X {"Critical", "Major", "Minor", "Low"} |->
     CASE p = <<"Incident", "Critical">> -> 4
       [] p = <<"Incident", "Major">> -> 8
       [] p = <<"Incident", "Minor">> -> 10
       [] p = <<"Incident", "Low">> -> 13
       [] p = <<"Event", "Critical">> -> 2
       [] p = <<"Event", "Major">> -> 4
       [] p = <<"Event", "Minor">> -> 15
       [] p = <<"Event", "Low">> -> 48]

-----------------------------------------------------------------------------
(* Conversions *)

\* str.upper() on the letters the flag texts are written with
UpperChar(c) ==
  CASE c = "y" -> "Y"
    [] c = "e" -> "E"
    [] c = "s" -> "S"
    [] c = "n" -> "N"
    [] c = "o" -> "O"
    [] OTHER -> c

\* Series.str.upper(): NaN for every cell that is not a string
StrUpper(c) ==
  IF c.k = "str" THEN S([i \in DOMAIN c.v |-> UpperChar(c.v[i])]) ELSE NaN

\* the .str accessor: read_excel gives a column with no text in it a numeric
\* dtype (float64 when a cell is empty), and .str raises on those; a table
\* without rows has object columns
HasStrAccessor(rows, col) ==
  rows = <<>> \/ \E i \in DOMAIN rows : rows[i][col].k = "str"

\* pd.to_datetime(errors='coerce')
to_datetime(c) == IF c.k = "ts" THEN c ELSE NaN

\* .dt.strftime('%B') inside the window
MonthName(c) ==
  IF isna(c) THEN NaN
  ELSE IF c.v < NewYearTick THEN S("December") ELSE S("January")

\* .dt.year inside the window
YearOf(c) ==
  IF isna(c) THEN NaN
  ELSE IF c.v < NewYearTick THEN N(2023) ELSE N(2024)

\* the dtype .dt.year gives: float64 as soon as one timestamp is NaT
YearDtype(rows) ==
  IF \E i \in DOMAIN rows : isna(rows[i].OccuredTime) THEN "float64" ELSE "int32"

\* str() of a value of the Year column
YearStr(y, dtype) ==
  IF dtype = "float64"
  THEN (IF y = 2023 THEN "2023.0" ELSE "2024.0")
  ELSE (IF y = 2023 THEN "2023" ELSE "2024")

\* int() of a string: the strings it accepts
IntParses(s) == s \in {"2023", "2024"}

IntOf(s) == IF s = "2023" THEN 2023 ELSE 2024

-----------------------------------------------------------------------------
(* The per-row rules of the pipeline *)

YES == <<"Y", "E", "S">>

\* a comparison that forgets str.upper()
NotExcludedCaseSensitive(r) == ~(r.IsExcluded.k = "str" /\ r.IsExcluded.v = YES)

\* line 44: the rows the exclusion filter keeps (NaN != 'YES' is True)
NotExcluded(r) == StrUpper(r.IsExcluded) # S(YES)

\* lines 47-49
WithMonthYear(r) ==
  LET t == to_datetime(r.OccuredTime) IN
    [Month |-> MonthName(t), Year |-> YearOf(t)] @@ [r EXCEPT !.OccuredTime = t]

\* lines 60-61
OldKPIOf(r) ==
  IF IsText(r.TypeTicket, "Incident") THEN S("B1")
  ELSE IF r.FaultLevel.k = "str" /\ r.FaultLevel.v \in DOMAIN fault_mapping
       THEN S(fault_mapping[r.FaultLevel.v])
       ELSE NaN

WithOldKPI(r) == [OldKPI |-> OldKPIOf(r)] @@ r

\* lines 64-66
WithParsedDates(r) ==
  [r EXCEPT !.OccuredTime = to_datetime(@),
            !.ClearedTime = to_datetime(@),
            !.SiteClearedOn = to_datetime(@)]

\* lines 69-72: hours between occurrence and clearance, NaN filled with 0
MTTROf(r) ==
  LET cleared == IF isna(r.SiteClearedOn) THEN r.ClearedTime ELSE r.SiteClearedOn
      hours == IF isna(cleared) \/ isna(r.OccuredTime)
               THEN NaNF
               ELSE F(cleared.v - r.OccuredTime.v, TicksPerHour)
  IN IF hours.f = "nan" THEN Zero ELSE hours

WithMTTR(r) == [MTTR |-> MTTROf(r)] @@ r

\* line 81: slamap.get((Type Ticket, Severity), 0)
SLAMTTROf(r) ==
  IF r.TypeTicket.k = "str" /\ r.Severity.k = "str"
     /\ <<r.TypeTicket.v, r.Severity.v>> \in DOMAIN slamap
  THEN slamap[<<r.TypeTicket.v, r.Severity.v>>]
  ELSE 0

WithSLAMTTR(r) == [SLAMTTR |-> SLAMTTROf(r)] @@ r

\* lines 84-85
ScoreMTTROf(r) ==
  LET x == FDivInt(r.MTTR, r.SLAMTTR) IN IF GtZero(x) THEN MinCap(x) ELSE Zero

WithScoreMTTR(r) == [ScoreMTTR |-> ScoreMTTROf(r)] @@ r

\* lines 88-89
HandlingOf(r) == IF isna(r.PIC) THEN "Autoclear" ELSE "Takeover"

WithHandling(r) ==
  LET h == HandlingOf(r) IN
    [Handling |-> h, ScoreTO |-> IF h = "Takeover" THEN F(3, 10) ELSE Zero] @@ r

\* a threshold of zero hours instead of one
NotNoiseZeroThreshold(r) == ~(r.Handling = "Autoclear" /\ ~FLess(Zero, r.MTTR))

\* line 92: the rows the noise filter keeps
NotNoise(r) == ~(r.Handling = "Autoclear" /\ FLess(r.MTTR, F(1, 1)))

\* lines 95-96
WithVisitation(r) ==
  LET v == IF ~isna(r.CheckInAt) THEN "Visit" ELSE "NoVisit" IN
    [Visitation |-> v, ScoreVisit |-> IF v = "Visit" THEN F(5, 10) ELSE Zero] @@ r

\* line 99
WithScoreRCA(r) ==
  [ScoreRCA |-> IF IsText(r.RCAValidated, "Yes") THEN F(1, 10) ELSE Zero] @@ r

\* line 102
WithScoreClosed(r) ==
  [ScoreClosed |-> IF IsText(r.Status, "Closed") THEN F(1, 10) ELSE Zero] @@ r

\* line 105
SCOREOf(r) ==
  FMul(FAdd(FAdd(FAdd(r.ScoreTO, r.ScoreVisit), r.ScoreRCA), r.ScoreClosed), r.ScoreMTTR)

WithSCORE(r) == [SCORE |-> SCOREOf(r)] @@ r

-----------------------------------------------------------------------------
(* Aggregation, lines 108-114 *)

GroupColumns == {"Month", "Year", "Area", "Regional", "NOP", "OldKPI", "Severity"}

KeyOf(r) == [c \in GroupColumns |-> r[c]]

\* groupby drops the rows that have a missing key (dropna=True)
HasKey(r) == \A c \in GroupColumns : ~isna(r[c])

RECURSIVE SumSCORE(_)
SumSCORE(rows) ==
  IF rows = <<>> THEN Zero ELSE FAdd(rows[1].SCORE, SumSCORE(Tail(rows)))

InGroup(rows, key) == SelectSeq(rows, LAMBDA r : HasKey(r) /\ KeyOf(r) = key)

\* 'count' counts the cells of Ticket Number SWFM that are not missing
CountTickets(rows) == Len(SelectSeq(rows, LAMBDA r : ~isna(r.TicketNumberSWFM)))

SummaryRow(rows, key) ==
  LET g == InGroup(rows, key) IN
    key @@ [Ticket_Count |-> CountTickets(g),
            Avg_SCORE |-> FDivInt(SumSCORE(g), Len(g)),
            Sum_SCORE |-> SumSCORE(g)]

SummaryOf(rows) ==
  {SummaryRow(rows, KeyOf(rows[i])) : i \in {j \in DOMAIN rows : HasKey(rows[j])}}

-----------------------------------------------------------------------------
(* The filter widgets, lines 116-165 *)

TextsOf(rows, col) ==
  {rows[i][col].v : i \in {j \in DOMAIN rows : ~isna(rows[j][col])}}

\* line 117
MonthOptions(rows) == TextsOf(rows, "Month")

\* lines 118 and 130: the years, as the strings the select box shows
YearOptions(rows, dtype) ==
  {YearStr(rows[i].Year.v, dtype) : i \in {j \in DOMAIN rows : ~isna(rows[j].Year)}}

\* line 119
AreaOptions(rows) == TextsOf(rows, "Area")

\* no narrowing by the selected Area
RegionalOptionsNotNarrowed(rows, area) == TextsOf(rows, "Regional")

\* lines 137-140
RegionalOptions(rows, area) ==
  IF area # "All"
  THEN TextsOf(SelectSeq(rows, LAMBDA r : IsText(r.Area, area)), "Regional")
  ELSE TextsOf(rows, "Regional")

\* lines 146-149
NopOptions(rows, regional) ==
  IF regional # "All"
  THEN TextsOf(SelectSeq(rows, LAMBDA r : IsText(r.Regional, regional)), "NOP")
  ELSE TextsOf(rows, "NOP")

\* lines 155-165, for a year string that int() accepts
ApplyFilters(sm, m, y, a, r, n) ==
  {g \in sm :
     /\ m = "All" \/ IsText(g.Month, m)
     /\ y = "All" \/ g.Year.v = IntOf(y)
     /\ a = "All" \/ IsText(g.Area, a)
     /\ r = "All" \/ IsText(g.Regional, r)
     /\ n = "All" \/ IsText(g.NOP, n)}

\* One run of lines 116-165 with the widget values m, y, a, r, n.  A select
\* box whose option list changed since the last run is a new widget and
\* shows its first option, 'All'.
RunFilters(m, y, a, r, n) ==
  LET ro == RegionalOptions(df, a)
      r2 == IF ro = regional_options THEN r ELSE "All"
      no == NopOptions(df, r2)
      n2 == IF no = nop_options THEN n ELSE "All"
  IN /\ month_options' = MonthOptions(df)
     /\ year_options' = YearOptions(df, year_dtype)
     /\ area_options' = AreaOptions(df)
     /\ regional_options' = ro
     /\ nop_options' = no
     /\ selected_month' = m
     /\ selected_year' = y
     /\ selected_area' = a
     /\ selected_regional' = r2
     /\ selected_nop' = n2
     /\ IF y # "All" /\ ~IntParses(y)
        THEN /\ pc' = "error"
             /\ err' = "ValueError"
             /\ filtered_summary' = {}
        ELSE /\ pc' = "shown"
             /\ err' = err
             /\ filtered_summary' = ApplyFilters(summary, m, y, a, r2, n2)
     /\ UNCHANGED <<df_raw, df, year_dtype, summary>>

-----------------------------------------------------------------------------
(* The steps of one run of the script *)

\* line 41
Project ==
  /\ pc = "start"
  /\ IF needed_columns \subseteq df_raw.columns
     THEN /\ pc' = "projected"
          /\ df' = df_raw.rows
          /\ err' = err
     ELSE /\ pc' = "error"
          /\ err' = "KeyError"
          /\ df' = df
  /\ UNCHANGED <<df_raw, year_dtype, summary, uivars>>

\* line 44
RemoveExcluded ==
  /\ pc = "projected"
  /\ IF HasStrAccessor(df, "IsExcluded")
     THEN /\ pc' = "filtered"
          /\ df' = SelectSeq(df, NotExcluded)
          /\ err' = err
     ELSE /\ pc' = "error"
          /\ err' = "AttributeError"
          /\ df' = df
  /\ UNCHANGED <<df_raw, year_dtype, summary, uivars>>

\* lines 47-49
ExtractMonthYear ==
  /\ pc = "filtered"
  /\ pc' = "monthyear"
  /\ df' = [i \in DOMAIN df |-> WithMonthYear(df[i])]
  /\ year_dtype' = YearDtype(df')
  /\ UNCHANGED <<df_raw, summary, err, uivars>>

\* lines 52-61
MapOldKPI ==
  /\ pc = "monthyear"
  /\ pc' = "oldkpi"
  /\ df' = [i \in DOMAIN df |-> WithOldKPI(df[i])]
  /\ UNCHANGED <<df_raw, year_dtype, summary, err, uivars>>

\* lines 64-66
ParseDates ==
  /\ pc = "oldkpi"
  /\ pc' = "parsed"
  /\ df' = [i \in DOMAIN df |-> WithParsedDates(df[i])]
  /\ UNCHANGED <<df_raw, year_dtype, summary, err, uivars>>

\* lines 69-72
CalcMTTR ==
  /\ pc = "parsed"
  /\ pc' = "mttr"
  /\ df' = [i \in DOMAIN df |-> WithMTTR(df[i])]
  /\ UNCHANGED <<df_raw, year_dtype, summary, err, uivars>>

\* lines 75-81.  On a frame without rows DataFrame.apply(axis=1) gives back,
\* depending on the pandas release, an empty Series (the column is added) or
\* a copy of the frame (the assignment then raises).
CalcSLAMTTR ==
  \/ /\ pc = "mttr"
     /\ pc' = "slamttr"
     /\ df' = [i \in DOMAIN df |-> WithSLAMTTR(df[i])]
     /\ UNCHANGED <<df_raw, year_dtype, summary, err, uivars>>
  \/ /\ pc = "mttr"
     /\ df = <<>>
     /\ pc' = "error"
     /\ err' = "ValueError"
     /\ UNCHANGED <<df_raw, df, year_dtype, summary, uivars>>

\* lines 84-85
CalcScoreMTTR ==
  /\ pc = "slamttr"
  /\ pc' = "scoremttr"
  /\ df' = [i \in DOMAIN df |-> WithScoreMTTR(df[i])]
  /\ UNCHANGED <<df_raw, year_dtype, summary, err, uivars>>

\* lines 88-89
CalcHandling ==
  /\ pc = "scoremttr"
  /\ pc' = "handling"
  /\ df' = [i \in DOMAIN df |-> WithHandling(df[i])]
  /\ UNCHANGED <<df_raw, year_dtype, summary, err, uivars>>

\* line 92
RemoveNoise ==
  /\ pc = "handling"
  /\ pc' = "denoised"
  /\ df' = SelectSeq(df, NotNoise)
  /\ UNCHANGED <<df_raw, year_dtype, summary, err, uivars>>

\* lines 95-96
CalcVisitation ==
  /\ pc = "denoised"
  /\ pc' = "visit"
  /\ df' = [i \in DOMAIN df |-> WithVisitation(df[i])]
  /\ UNCHANGED <<df_raw, year_dtype, summary, err, uivars>>

\* line 99
CalcScoreRCA ==
  /\ pc = "visit"
  /\ pc' = "rca"
  /\ df' = [i \in DOMAIN df |-> WithScoreRCA(df[i])]
  /\ UNCHANGED <<df_raw, year_dtype, summary, err, uivars>>

\* line 102
CalcScoreClosed ==
  /\ pc = "rca"
  /\ pc' = "closed"
  /\ df' = [i \in DOMAIN df |-> WithScoreClosed(df[i])]
  /\ UNCHANGED <<df_raw, year_dtype, summary, err, uivars>>

\* line 105
CalcSCORE ==
  /\ pc = "closed"
  /\ pc' = "scored"
  /\ df' = [i \in DOMAIN df |-> WithSCORE(df[i])]
  /\ UNCHANGED <<df_raw, year_dtype, summary, err, uivars>>

\* lines 108-114
Summarize ==
  /\ pc = "scored"
  /\ pc' = "aggregated"
  /\ summary' = SummaryOf(df)
  /\ UNCHANGED <<df_raw, df, year_dtype, err, uivars>>

\* lines 116-165, the first run: every select box shows 'All'
Render ==
  /\ pc = "aggregated"
  /\ RunFilters("All", "All", "All", "All", "All")

\* The user picks another value in a select box and the script runs again.
\* The run recomputes df and summary from the cached df_raw; they come out
\* the same, so the rerun is modelled from line 116 on.
SelectMonth ==
  /\ pc = "shown"
  /\ \E m \in ({"All"} \cup month_options) \ {selected_month} :
       RunFilters(m, selected_year, selected_area, selected_regional, selected_nop)

SelectYear ==
  /\ pc = "shown"
  /\ \E y \in ({"All"} \cup year_options) \ {selected_year} :
       RunFilters(selected_month, y, selected_area, selected_regional, selected_nop)

SelectArea ==
  /\ pc = "shown"
  /\ \E a \in ({"All"} \cup area_options) \ {selected_area} :
       RunFilters(selected_month, selected_year, a, selected_regional, selected_nop)

SelectRegional ==
  /\ pc = "shown"
  /\ \E r \in ({"All"} \cup regional_options) \ {selected_regional} :
       RunFilters(selected_month, selected_year, selected_area, r, selected_nop)

SelectNOP ==
  /\ pc = "shown"
  /\ \E n \in ({"All"} \cup nop_options) \ {selected_nop} :
       RunFilters(selected_month, selected_year, selected_area, selected_regional, n)

Pipeline ==
  \/ Project
  \/ RemoveExcluded
  \/ ExtractMonthYear
  \/ MapOldKPI
  \/ ParseDates
  \/ CalcMTTR
  \/ CalcSLAMTTR
  \/ CalcScoreMTTR
  \/ CalcHandling
  \/ RemoveNoise
  \/ CalcVisitation
  \/ CalcScoreRCA
  \/ CalcScoreClosed
  \/ CalcSCORE
  \/ Summarize

Next ==
  \/ Pipeline
  \/ Render
  \/ SelectMonth
  \/ SelectYear
  \/ SelectArea
  \/ SelectRegional
  \/ SelectNOP

-----------------------------------------------------------------------------
(* The uploaded tables the runs start from *)

Row(flag, occ, clr, sco, fl, ty, sev, pic, chk, rca, st, area, reg, nop, tkt) ==
  [IsExcluded |-> flag, OccuredTime |-> occ, ClearedTime |-> clr, SiteClearedOn |-> sco,
   FaultLevel |-> fl, TypeTicket |-> ty, Severity |-> sev, PIC |-> pic, CheckInAt |-> chk,
   RCAValidated |-> rca, Status |-> st, Area |-> area, Regional |-> reg, NOP |-> nop,
   TicketNumberSWFM |-> tkt]

No == S(<<"N", "o">>)

FlagCells ==
  {NaN, N(1), No, S(YES), S(<<"y", "e", "s">>), S(<<"Y", "e", "s">>),
   S(<<"Y", "E", "S", " ">>)}

Ticks == {T(t) : t \in 0..MaxTick}

\* one row, every combination of the cells the scores are computed from
ScoreRows ==
  {Row(No, occ, clr, sco, S("P1"), ty, sev, pic, chk, rca, st,
       S("A1"), S("R1"), S("N1"), S("SWFM-1")) :
     occ \in {S("n/a"), T(0), T(NewYearTick)},
     clr \in {NaN} \cup Ticks,
     sco \in {NaN, T(1)},
     ty \in {S("Incident"), S("Event"), S("Request")},
     sev \in {S("Critical"), S("Major"), S("Minor"), S("Low"), S("Unknown"), NaN},
     pic \in {NaN, S("Budi")},
     chk \in {NaN, T(2)},
     rca \in {S("Yes"), S("No"), NaN},
     st \in {S("Closed"), S("Open")}}

\* one row, every fault level with every kind of ticket
FaultRows ==
  {Row(No, T(0), T(MaxTick), NaN, fl, ty, S("Major"), S("Budi"), NaN, S("No"), S("Open"),
       S("A1"), S("R1"), S("N1"), S("SWFM-1")) :
     fl \in {S(x) : x \in DOMAIN fault_mapping} \cup {S("Unknown"), NaN, N(1)},
     ty \in {S("Incident"), S("Event"), S("Request"), NaN}}

\* rows for the two filters and the aggregation
FilterRows ==
  {Row(flag, T(1), clr, NaN, S("P1"), S("Event"), S("Critical"), pic, NaN, S("Yes"),
       S("Closed"), S("A1"), S("R1"), S("N1"), S("SWFM-1")) :
     flag \in FlagCells, pic \in {NaN, S("Budi")}, clr \in {T(2)}}
  \cup
  {Row(No, T(1), clr, NaN, S("P1"), S("Event"), S("Critical"), pic, NaN, S("Yes"),
       S("Closed"), S("A1"), S("R1"), S("N1"), S("SWFM-1")) :
     pic \in {NaN, S("Budi")}, clr \in {NaN, T(0), T(1 + TicksPerHour), T(MaxTick)}}
  \cup
  {Row(No, T(1), T(MaxTick), NaN, S("P1"), S("Event"), S("Critical"), S("Budi"), chk,
       S("Yes"), S("Closed"), area, S("R1"), S("N1"), tkt) :
     chk \in {NaN, T(2)}, area \in {S("A1"), NaN}, tkt \in {S("SWFM-1"), NaN}}

\* rows for the filter widgets
WidgetRows ==
  {Row(No, T(MaxTick), T(MaxTick), NaN, S("P1"), S("Event"), S("Critical"), S("Budi"),
       NaN, S("Yes"), S("Closed"), S(k[1]), S(k[2]), S(k[3]), S("SWFM-1")) :
     k \in {<<"A1", "R1", "N1">>, <<"A1", "R2", "N2">>, <<"A2", "R2", "N1">>,
            <<"A2", "R3", "N1">>, <<"A2", "R1", "N3">>}}
  \cup
  {Row(k[1], k[2], T(MaxTick), NaN, S("P1"), S("Event"), S("Critical"), S("Budi"),
       NaN, S("Yes"), S("Closed"), S("A1"), S("R1"), S("N1"), S("SWFM-1")) :
     k \in {<<NaN, T(MaxTick)>>, <<No, T(0)>>, <<No, S("n/a")>>, <<S(YES), T(0)>>}}
  \cup
  {Row(No, T(MaxTick), T(MaxTick), NaN, S("P1"), S("Event"), S("Critical"), S("Budi"),
       NaN, S("Yes"), S("Closed"), k[1], k[2], k[3], S("SWFM-1")) :
     k \in {<<NaN, S("R2"), S("N2")>>, <<S("A2"), NaN, S("N2")>>,
            <<S("A2"), S("R2"), NaN>>}}

AllColumns == needed_columns \cup {"Remarks"}

\* load_excel: the tables of n rows drawn from rowset, indexed 0 .. n-1
Tables(rowset, n) ==
  {[i \in 1..n |-> [idx |-> i - 1] @@ t[i]] : t \in [1..n -> rowset]}

InitFrom(rowset, lens) ==
  /\ \E n \in lens : \E rows \in Tables(rowset, n) :
       \/ df_raw = [columns |-> AllColumns, rows |-> rows]
       \/ /\ n = 0
          /\ \E c \in {"Rank", "Is Excluded In KPI"} :
               df_raw = [columns |-> AllColumns \ {c}, rows |-> rows]
  /\ df = <<>>
  /\ year_dtype = "int32"
  /\ summary = {}
  /\ pc = "start"
  /\ err = "none"
  /\ month_options = {}
  /\ year_options = {}
  /\ area_options = {}
  /\ regional_options = {}
  /\ nop_options = {}
  /\ selected_month = "All"
  /\ selected_year = "All"
  /\ selected_area = "All"
  /\ selected_regional = "All"
  /\ selected_nop = "All"
  /\ filtered_summary = {}

Init == InitFrom(WidgetRows, 0..MaxRows)

InitRows == InitFrom(FilterRows, 0..MaxRows)

InitScore == InitFrom(ScoreRows \cup FaultRows, 0..1)

Spec == Init /\ [][Next]_vars

SpecRows == InitRows /\ [][Pipeline]_vars

SpecScore == InitScore /\ [][Pipeline]_vars

-----------------------------------------------------------------------------
(* Properties *)

Scored == pc \in {"scored", "aggregated", "shown"}

Denoised ==
  pc \in {"denoised", "visit", "rca", "closed", "scored", "aggregated", "shown"}

Processed == pc \in {"aggregated", "shown"}

\* a partial score, in tenths
Tenths(x) == (10 * x.n) \div x.d

\* C1: when the pipeline has completed, every row of the Processed table has
\* SCORE = (ScoreTO + ScoreVisit + ScoreRCA + ScoreClosed) x ScoreMTTR and
\* 0 <= SCORE <= 1.5, whatever the cells of the row were.
C1_ScoreRange ==
  Scored =>
    \A i \in DOMAIN df :
      LET r == df[i]
          parts == Tenths(r.ScoreTO) + Tenths(r.ScoreVisit)
                   + Tenths(r.ScoreRCA) + Tenths(r.ScoreClosed)
      IN /\ r.SCORE.f = "num"
         /\ r.SCORE.n * 10 * r.ScoreMTTR.d = parts * r.ScoreMTTR.n * r.SCORE.d
         /\ 0 <= r.SCORE.n
         /\ 2 * r.SCORE.n <= 3 * r.SCORE.d

\* C1 witness: a completed run whose row reaches the ceiling of 1.5 although
\* its Severity is not in the SLA table
C1_Witness ==
  /\ pc = "aggregated"
  /\ \E i \in DOMAIN df :
       /\ df[i].SCORE = F(3, 2)
       /\ IsText(df[i].Severity, "Unknown")

\* C2: every row of the Processed table has MTTR >= 0 and SLAMTTR >= 0, also
\* when its clearance timestamp is earlier than its Occured Time.
C2_MTTRNonNegative ==
  Processed =>
    \A i \in DOMAIN df :
      /\ df[i].MTTR.f = "num"
      /\ df[i].MTTR.n >= 0
      /\ df[i].SLAMTTR >= 0

\* C3: ScoreMTTR = min(MTTR / SLAMTTR, 1.5) when SLAMTTR > 0 and the ratio is
\* positive, and ScoreMTTR = 0 otherwise, in particular whenever SLAMTTR = 0.
C3_ScoreMTTR ==
  Processed =>
    \A i \in DOMAIN df :
      LET r == df[i]
          sla == r.SLAMTTR
          sm == r.ScoreMTTR
      IN IF sla > 0 /\ r.MTTR.n > 0
         THEN IF 2 * r.MTTR.n <= 3 * r.MTTR.d * sla
              THEN sm.n * r.MTTR.d * sla = r.MTTR.n * sm.d
              ELSE sm.n * 2 = 3 * sm.d
         ELSE sm.n = 0

RECURSIVE SumTicketCount(_)
SumTicketCount(groups) ==
  IF groups = {} THEN 0
  ELSE LET g == CHOOSE x \in groups : TRUE
       IN g.Ticket_Count + SumTicketCount(groups \ {g})

\* C4: the Ticket_Count values of the Summary table add up to the number of
\* rows of the Processed table.
C4_CountsAddUp == Processed => SumTicketCount(summary) = Len(df)

BeforeNoiseFilter ==
  pc \in {"start", "projected", "filtered", "monthyear", "oldkpi", "parsed", "mttr",
          "slamttr", "scoremttr", "handling"}

\* C5: once the noise filter has run, no row of the Processed table has
\* PIC Take Over Ticket missing (Handling = Autoclear) and MTTR < 1 hour, so
\* no such row is in a group of the Summary table; the filter runs when MTTR
\* and Handling are there, and SCORE and the Summary table come after it.
C5_NoNoiseRows ==
  /\ Denoised =>
       \A i \in DOMAIN df :
         ~(/\ df[i].Handling = "Autoclear" \/ isna(df[i].PIC)
           /\ df[i].MTTR.n < df[i].MTTR.d)
  /\ pc = "handling" =>
       \A i \in DOMAIN df : {"MTTR", "Handling"} \subseteq DOMAIN df[i]
  /\ BeforeNoiseFilter =>
       /\ summary = {}
       /\ \A i \in DOMAIN df : "SCORE" \notin DOMAIN df[i]

\* C5 witness: a completed run that dropped an auto-cleared row of less than
\* an hour and kept an auto-cleared row of an hour or more, which is counted
C5_Witness ==
  /\ pc = "aggregated"
  /\ \E j \in DOMAIN df_raw.rows :
       LET x == df_raw.rows[j] IN
         /\ isna(x.PIC)
         /\ x.IsExcluded = No
         /\ x.ClearedTime = T(2)
         /\ \A i \in DOMAIN df : df[i].idx # x.idx
  /\ \E i \in DOMAIN df : df[i].Handling = "Autoclear"
  /\ summary # {}

\* the Fault Level table as the specification prints it
SpecFaultTable ==
  [fl \in {"Controller P2", "Controller P1", "Enva Controller", "Enva Site",
           "Enva Site GSB", "Enva Site Simpul", "L2 Configuration", "P1", "P1 VIP",
           "P2", "P2 VIP", "Vandalism", "L2 License", "P3"} |->
     CASE fl \in {"Controller P2", "Controller P1"} -> "B22"
       [] fl \in {"Enva Controller", "Enva Site", "Enva Site GSB", "Enva Site Simpul"}
            -> "B21"
       [] fl \in {"P1", "P1 VIP"} -> "B23"
       [] fl \in {"L2 Configuration", "P2", "P2 VIP", "Vandalism", "L2 License", "P3"}
            -> "B3"]

Classified ==
  \/ pc \in {"oldkpi", "parsed", "mttr", "slamttr", "scoremttr", "handling"}
  \/ Denoised

OldKPIFollows(table) ==
  Classified =>
    \A i \in DOMAIN df :
      LET r == df[i] IN
        /\ r.OldKPI =
             IF r.TypeTicket = S("Incident") THEN S("B1")
             ELSE IF r.FaultLevel.k = "str" /\ r.FaultLevel.v \in DOMAIN table
                  THEN S(table[r.FaultLevel.v])
                  ELSE NaN
        /\ r.OldKPI \in {S("B1"), S("B21"), S("B22"), S("B23"), S("B3"), NaN}

\* C6 as claimed: OldKPI is B1 for an Incident, else what the specification's
\* Fault Level table gives, and null for every Fault Level that table lacks.
C6_OldKPIBySpecTable == OldKPIFollows(SpecFaultTable)

\* C6 as amended: the table has one more key, Enva Site VIP -> B21.
C6_OldKPIByCodeTable == OldKPIFollows(("Enva Site VIP" :> "B21") @@ SpecFaultTable)

\* C6 witness: a completed run with an Enva Site VIP ticket classified B21
C6_Witness ==
  /\ pc = "aggregated"
  /\ \E i \in DOMAIN df :
       /\ df[i].FaultLevel = S("Enva Site VIP")
       /\ df[i].OldKPI = S("B21")

\* C7: a run aborts only when a required column is missing.
C7_OnlySchemaAborts == pc = "error" => ~(needed_columns \subseteq df_raw.columns)

CaseInsensitiveYes(c) ==
  /\ c.k = "str"
  /\ Len(c.v) = 3
  /\ c.v[1] \in {"y", "Y"}
  /\ c.v[2] \in {"e", "E"}
  /\ c.v[3] \in {"s", "S"}

\* a raw row cleared less than an hour after it occurred (0 hours when a
\* timestamp is missing or unreadable)
UnderAnHour(x) ==
  LET cleared == IF x.SiteClearedOn.k = "ts" THEN x.SiteClearedOn ELSE x.ClearedTime
  IN IF cleared.k = "ts" /\ x.OccuredTime.k = "ts"
     THEN cleared.v - x.OccuredTime.v < TicksPerHour
     ELSE TRUE

RawKept(x) == ~CaseInsensitiveYes(x.IsExcluded) /\ ~(isna(x.PIC) /\ UnderAnHour(x))

Labels(rows) == [i \in DOMAIN rows |-> rows[i].idx]

UntouchedColumns ==
  {"idx", "IsExcluded", "FaultLevel", "TypeTicket", "Severity", "PIC", "CheckInAt",
   "RCAValidated", "Status", "Area", "Regional", "NOP", "TicketNumberSWFM"}

\* C8: the Processed table holds exactly the raw rows whose flag is not YES
\* in any letter case (a missing flag keeps the row) and that are not
\* auto-cleared in under an hour, once each, in their original order and
\* with their cells; after the exclusion filter alone, exactly the former.
C8_RowsKept ==
  /\ pc = "filtered" =>
       Labels(df) = Labels(SelectSeq(df_raw.rows,
                                     LAMBDA x : ~CaseInsensitiveYes(x.IsExcluded)))
  /\ Processed =>
       /\ Labels(df) = Labels(SelectSeq(df_raw.rows, RawKept))
       /\ \A i \in DOMAIN df : \A c \in UntouchedColumns :
            df[i][c] = df_raw.rows[df[i].idx + 1][c]

\* C8 witness: a completed run that dropped a row flagged "yes" in lower case
\* and kept the row after it, whose flag is missing
C8_Witness ==
  /\ pc = "aggregated"
  /\ Len(df_raw.rows) = 2
  /\ df_raw.rows[1].IsExcluded = S(<<"y", "e", "s">>)
  /\ isna(df_raw.rows[2].IsExcluded)
  /\ Labels(df) = <<1>>

RegionalsUnder(area) ==
  {df[i].Regional.v :
     i \in {j \in DOMAIN df : /\ df[j].Regional.k # "nan"
                              /\ area = "All" \/ df[j].Area = S(area)}}

NopsUnder(regional) ==
  {df[i].NOP.v :
     i \in {j \in DOMAIN df : /\ df[j].NOP.k # "nan"
                              /\ regional = "All" \/ df[j].Regional = S(regional)}}

C9_Options ==
  pc = "shown" =>
    /\ regional_options = RegionalsUnder(selected_area)
    /\ nop_options = NopsUnder(selected_regional)
    /\ filtered_summary \subseteq summary

\* C9: after any selections, the Regional options are the distinct Regional
\* values of the Processed rows under the selected Area (all of them for
\* "All"), the NOP options those under the selected Regional; a selection
\* filters the Summary table and changes neither it nor the Processed table.
C9_CascadingOptions ==
  /\ []C9_Options
  /\ [][pc = "shown" => df' = df /\ summary' = summary]_vars

\* C9 witness: an Area and a Regional are selected, and each narrowed the
\* options of the select box below it
C9_Witness ==
  /\ pc = "shown"
  /\ selected_area # "All"
  /\ selected_regional # "All"
  /\ regional_options # RegionalsUnder("All")
  /\ nop_options # NopsUnder("All")

GroupOf(g) ==
  SelectSeq(df, LAMBDA r : \A c \in GroupColumns : r[c] = g[c])

\* C10: every Summary row stands for a non-empty group of Processed rows with
\* its key; Ticket_Count is the number of rows of the group, Sum_SCORE their
\* SCORE total and Avg_SCORE is Sum_SCORE / Ticket_Count.
C10_GroupStatistics ==
  Processed =>
    \A g \in summary :
      /\ g.Ticket_Count >= 1
      /\ g.Ticket_Count = Len(GroupOf(g))
      /\ g.Sum_SCORE = SumSCORE(GroupOf(g))
      /\ g.Avg_SCORE = FDivInt(g.Sum_SCORE, g.Ticket_Count)

====
